---- MODULE Spec2Model ----
(***************************************************************************)
(* Model of the two custom algorithms of the perception pipeline:          *)
(*   identifyCones (src/src/detection.cpp)  - blob-to-marker clustering    *)
(*   connectCones  (src/src/track.cpp)      - boundary tracing             *)
(* Each algorithm is a state machine of its own specification              *)
(* (SpecCluster, SpecTrace); a loop iteration of the source is one step.   *)
(***************************************************************************)
EXTENDS Integers, Sequences, FiniteSets, TLC

VARIABLES
    \* ---- identifyCones ----
    contours,       \* output of cv::findContours with bounding box and moments
    args,           \* vThreshold, hThreshold, maxArea, minArea of the call
    detectedParts,  \* std::vector<Cone> detectedParts (src = contour index)
    cones,          \* std::vector<Cone> cones, the result
    coneParts,      \* history: the contour indices merged into each cone
    partIdx,        \* position of the range-for over detectedParts
    cpc,            \* "idle" | "extract" | "merge" | "done"
    \* ---- connectCones ----
    inputCones,     \* the caller's vector at the call (history)
    callerCones,    \* the caller's vector, std::vector<Cone> &cones
    traceArgs,      \* maxDistance, cols (image.cols)
    remainingCones, \* the working copy
    trackEdgeCones, \* the path
    previousPoint,
    firstCone,
    frontOfEmpty,   \* front() was called on an empty vector
    iter,           \* iterations of the while loop entered so far
    tpc,            \* "idle" | "SELECTING_START" | "LINKING" | "TERMINATED" | "CRASHED"
    \* ---- the other components, one record each ----
    refineSt,       \* the keep-closest-N step of detectConesFromImage
    recordSt,       \* saveConeDetectionToJson / loadConeDetectionFromJson
    configSt,       \* PipelineParams::loadFromFile / saveToFile, g_params
    mainSt,         \* main: argument parsing and the three phases
    retraceSt       \* connectCones called again on the path it returned

clusterVars == <<contours, args, detectedParts, cones, coneParts, partIdx, cpc>>
traceVars == <<inputCones, callerCones, traceArgs, remainingCones, trackEdgeCones,
               previousPoint, firstCone, frontOfEmpty, iter, tpc>>
extVars == <<refineSt, recordSt, configSt, mainSt, retraceSt>>
vars == <<clusterVars, traceVars, extVars>>

\* ------------------------------------------------------------------ bounds
MaxBlobs == 3
MaxCones == 3

\* ------------------------------------------------------------- arithmetic
Abs(n) == IF n < 0 THEN -n ELSE n
Min(a, b) == IF a < b THEN a ELSE b
Max(a, b) == IF a > b THEN a ELSE b

Point(x, y) == [x |-> x, y |-> y]
Rect(x, y, w, h) == [x |-> x, y |-> y, width |-> w, height |-> h]

\* cv::Rect::area()
RectArea(r) == r.width * r.height

\* cv::Rect::empty()
RectEmpty(r) == r.width <= 0 \/ r.height <= 0

\* cv::Rect operator|= : the smallest rectangle enclosing both; an empty
\* operand leaves the other one
RectUnionNoGrow(a, b) == a
RectUnion(a, b) ==
    IF RectEmpty(a) THEN b
    ELSE IF RectEmpty(b) THEN a
    ELSE LET x1 == Min(a.x, b.x)
             y1 == Min(a.y, b.y)
         IN  Rect(x1, y1,
                  Max(a.x + a.width, b.x + b.width) - x1,
                  Max(a.y + a.height, b.y + b.height) - y1)

\* the permutations of 1..n
Perms(n) == {p \in [1..n -> 1..n] : \A i, j \in 1..n : i # j => p[i] # p[j]}

\* the arrangements of s by the permutations in ps
Arrange(s, ps) == {[i \in 1..Len(s) |-> s[p[i]]] : p \in ps}

\* =================================================== identifyCones
\* the hard-coded lower area limit of the filter
HardMinArea == 20

\* the contours the model draws from: centroid, bounding box around it, and
\* whether the contour has a non-zero area moment m00
ShapeAt(c, dx, dy, w, h, m) ==
    [boundingBox |-> Rect(c.x - dx, c.y - dy, w, h), center |-> c, m00nz |-> m]
P1 == Point(10, 10)
P2 == Point(12, 11)
P3 == Point(11, 13)
P4 == Point(20, 30)
ContourSet ==
    { ShapeAt(p, 2, 2, 5, 5, TRUE) : p \in {P1, P2, P3, P4} }      \* area 25
    \cup { ShapeAt(p, 1, 3, 4, 5, TRUE) : p \in {P1, P2, P3} }      \* area 20
    \cup { ShapeAt(P1, 2, 1, 4, 4, TRUE),                           \* area 16
           ShapeAt(P2, 3, 3, 6, 7, TRUE),                           \* area 42
           ShapeAt(P4, 2, 2, 5, 5, FALSE) }                         \* m00 = 0
HThresholds == {2, 5}
VThresholds == {5}
MaxAreas == {30, 4000}
MinAreas == {10, 20, 30}

SeqsUpTo(S, n) == UNION {[1..k -> S] : k \in 0..n}

\* detection.cpp:49  the filter skips a contour; the lower limit is the literal
\* 20, the minArea of the declaration (detection.hpp:15) is not read
AreaDiscarded(boundingBox, maxArea, minArea) ==
    RectArea(boundingBox) < HardMinArea \/ RectArea(boundingBox) > maxArea

\* detection.cpp:44-66  a contour becomes a part when it passes the area
\* filter and its m00 is not zero
IsPart(c, maxArea, minArea) ==
    /\ ~AreaDiscarded(c.boundingBox, maxArea, minArea)
    /\ c.m00nz

\* detection.cpp:69-70  comparator of the sort
PartLess(a, b) == a.center.y < b.center.y

\* detection.cpp:69-70  std::sort is not stable: every arrangement with no
\* pair out of order under the comparator is a possible result
SortedParts(s) ==
    Arrange(s, {q \in Perms(Len(s)) :
                  \A i, j \in 1..Len(s) : i < j => ~PartLess(s[q[j]], s[q[i]])})

\* detection.cpp:44-66  the positions, from i on, of the contours that become
\* parts
RECURSIVE KeptIdx(_, _, _, _)
KeptIdx(cs, maxArea, minArea, i) ==
    IF i > Len(cs) THEN <<>>
    ELSE (IF IsPart(cs[i], maxArea, minArea) THEN <<i>> ELSE <<>>)
             \o KeptIdx(cs, maxArea, minArea, i + 1)

\* detection.cpp:82-83  the proximity test
NearNoAbs(part, cone, hThreshold, vThreshold) ==
    /\ cone.center.x - part.center.x < hThreshold
    /\ cone.center.y - part.center.y < vThreshold
Near(part, cone, hThreshold, vThreshold) ==
    /\ Abs(part.center.x - cone.center.x) < hThreshold
    /\ Abs(part.center.y - cone.center.y) < vThreshold

\* detection.cpp:86-88  the merge of a part into a cone
MergeIntoKeepCentre(cone, part) ==
    [boundingBox |-> RectUnion(cone.boundingBox, part.boundingBox),
     center |-> cone.center]
MergeInto(cone, part) ==
    [boundingBox |-> RectUnion(cone.boundingBox, part.boundingBox),
     center |-> Point((cone.center.x + part.center.x) \div 2,
                      (cone.center.y + part.center.y) \div 2)]

\* detection.cpp:78-92  the inner loop: which cones the part is merged into.
\* There is no break after a merge: every cone that passes the test merges.
MergeTargets(cs, part, hThreshold, vThreshold) ==
    {i \in 1..Len(cs) : Near(part, cs[i], hThreshold, vThreshold)}

AsCone(part) == [boundingBox |-> part.boundingBox, center |-> part.center]

InitClusterVars ==
    /\ contours \in SeqsUpTo(ContourSet, MaxBlobs)
    /\ args \in [vThreshold : VThresholds, hThreshold : HThresholds,
                 maxArea : MaxAreas, minArea : MinAreas]
    /\ detectedParts = <<>>
    /\ cones = <<>>
    /\ coneParts = <<>>
    /\ partIdx = 1
    /\ cpc = "extract"

IdleClusterVars ==
    /\ contours = <<>>
    /\ args = [vThreshold |-> 0, hThreshold |-> 0, maxArea |-> 0, minArea |-> 0]
    /\ detectedParts = <<>>
    /\ cones = <<>>
    /\ coneParts = <<>>
    /\ partIdx = 1
    /\ cpc = "idle"

\* detection.cpp:44-70  filter the contours, compute the centres, sort by y
ExtractParts ==
    /\ cpc = "extract"
    /\ LET kept == KeptIdx(contours, args.maxArea, args.minArea, 1)
           parts == [k \in 1..Len(kept) |->
                       [boundingBox |-> contours[kept[k]].boundingBox,
                        center |-> contours[kept[k]].center,
                        src |-> kept[k]]]
       IN  detectedParts' \in SortedParts(parts)
    /\ cpc' = "merge"
    /\ UNCHANGED <<contours, args, cones, coneParts, partIdx>>
    /\ UNCHANGED <<traceVars, extVars>>

\* detection.cpp:75-95  one iteration of the outer loop
MergePart ==
    /\ cpc = "merge"
    /\ partIdx <= Len(detectedParts)
    /\ LET part == detectedParts[partIdx]
           t == MergeTargets(cones, part, args.hThreshold, args.vThreshold)
       IN  IF t = {}
           THEN /\ cones' = Append(cones, AsCone(part))
                /\ coneParts' = Append(coneParts, {part.src})
           ELSE /\ cones' = [i \in 1..Len(cones) |->
                               IF i \in t THEN MergeInto(cones[i], part) ELSE cones[i]]
                /\ coneParts' = [i \in 1..Len(cones) |->
                               IF i \in t THEN coneParts[i] \cup {part.src}
                               ELSE coneParts[i]]
    /\ partIdx' = partIdx + 1
    /\ UNCHANGED <<contours, args, detectedParts, cpc>>
    /\ UNCHANGED <<traceVars, extVars>>

\* detection.cpp:97-104  the loop is over: return cones
ReturnCones ==
    /\ cpc = "merge"
    /\ partIdx > Len(detectedParts)
    /\ cpc' = "done"
    /\ UNCHANGED <<contours, args, detectedParts, cones, coneParts, partIdx>>
    /\ UNCHANGED <<traceVars, extVars>>

\* =================================================== connectCones
\* float VERTICAL_PENALTY_FACTOR = 3.5f, kept as twice its value
VerticalPenaltyTimes2 == 7

\* floor of the square root of n >= 0, by bisection on lo..hi
RECURSIVE ISqrtIn(_, _, _)
ISqrtIn(n, lo, hi) ==
    IF lo >= hi THEN lo
    ELSE LET mid == (lo + hi + 1) \div 2
         IN  IF mid * mid <= n THEN ISqrtIn(n, mid, hi) ELSE ISqrtIn(n, lo, mid - 1)
ISqrt(n) == ISqrtIn(n, 0, Min(n, 46340))

\* sqrt(a) + p < sqrt(b) + q  for integers a, b >= 0, decided exactly
SqrtPlusLess(a, p, b, q) ==
    LET k == q - p
        sa == ISqrt(a)
        sb == ISqrt(b)
    IN  IF a = b THEN p < q
        ELSE IF sa * sa = a /\ sb * sb = b THEN sa + p < sb + q
        ELSE IF sa - sb + 1 <= k THEN TRUE
        ELSE IF sa - sb >= k + 1 THEN FALSE
        ELSE IF k >= 0
             THEN LET l == a - b - k * k
                  IN  l < 0 \/ l * l < 4 * k * k * b
             ELSE LET r == b - a - k * k
                  IN  r > 0 /\ 4 * k * k * a < r * r

\* track.cpp:37,38,42  cost = cv::norm(c - prev) + |c.y - prev.y| * 3.5, kept
\* as the pair (a, p) that stands for 2 * cost = sqrt(a) + p
CostSq(c, prev) ==
    4 * ((c.x - prev.x) * (c.x - prev.x) + (c.y - prev.y) * (c.y - prev.y))
CostLin(c, prev) == VerticalPenaltyTimes2 * Abs(c.y - prev.y)

\* track.cpp:39  distA < distB
CostLess(ca, cb, prev) ==
    SqrtPlusLess(CostSq(ca, prev), CostLin(ca, prev), CostSq(cb, prev), CostLin(cb, prev))

\* track.cpp:43  distance > maxDistance
TooFarNever(c, prev, maxDistance) == FALSE
TooFar(c, prev, maxDistance) ==
    SqrtPlusLess(0, 2 * maxDistance, CostSq(c, prev), CostLin(c, prev))

\* track.cpp:13-14  comparator of the sort: lower in the frame first, then
\* closer to the middle column
StartLess(a, b, cols) ==
    \/ a.center.y > b.center.y
    \/ /\ a.center.y = b.center.y
       /\ Abs(a.center.x - cols \div 2) < Abs(b.center.x - cols \div 2)

\* track.cpp:12-14  std::sort is not stable: every arrangement with no pair
\* out of order under the comparator is a possible result
SortedFromStart(s, cols) ==
    Arrange(s, {q \in Perms(Len(s)) :
                  \A i, j \in 1..Len(s) : i < j => ~StartLess(s[q[j]], s[q[i]], cols)})

\* track.cpp:31-39  std::min_element: the first position no other beats
MinElement(rem, prev) ==
    CHOOSE i \in 1..Len(rem) :
        /\ \A j \in 1..Len(rem) : ~CostLess(rem[j].center, rem[i].center, prev)
        /\ \A j \in 1..(i - 1) : CostLess(rem[i].center, rem[j].center, prev)

\* track.cpp:58  remainingCones.erase(it)
EraseKeep(rem, i) == rem
Erase(rem, i) == SubSeq(rem, 1, i - 1) \o SubSeq(rem, i + 1, Len(rem))

\* track.cpp:62  cones = trackEdgeCones
AssignBackKeep(old, path) == old
AssignBack(old, path) == path

\* the markers the model draws from (centre and bounding box)
ConeAt(c, dx, dy, w, h) ==
    [boundingBox |-> Rect(c.x - dx, c.y - dy, w, h), center |-> c]
TraceConeSet ==
    { ConeAt(Point(10, 100), 2, 2, 5, 5),
      ConeAt(Point(10, 100), 1, 3, 4, 5),
      ConeAt(Point(30, 100), 2, 2, 5, 5),
      ConeAt(Point(20, 90), 2, 2, 5, 5),
      ConeAt(Point(22, 82), 2, 2, 5, 5),
      ConeAt(Point(510, 100), 2, 2, 5, 5) }
MaxDistances == {-1, 50, 150}
FrameCols == {25, 40}
\* the verticalPenaltyFactor of the call (track.hpp:7), as twice its value
PenaltyFactorsTimes2 == {0, 7}

WithIds(s) ==
    [i \in 1..Len(s) |->
        [id |-> i, boundingBox |-> s[i].boundingBox, center |-> s[i].center]]

NoCone == [id |-> 0, boundingBox |-> Rect(0, 0, 0, 0), center |-> Point(0, 0)]

InitTraceVars ==
    /\ inputCones \in {WithIds(s) : s \in SeqsUpTo(TraceConeSet, MaxCones)}
    /\ callerCones = inputCones
    /\ traceArgs \in [maxDistance : MaxDistances, cols : FrameCols,
                      verticalPenaltyTimes2 : PenaltyFactorsTimes2]
    /\ remainingCones = <<>>
    /\ trackEdgeCones = <<>>
    /\ previousPoint = Point(0, 0)
    /\ firstCone = NoCone
    /\ frontOfEmpty = FALSE
    /\ iter = 0
    /\ tpc = "SELECTING_START"

IdleTraceVars ==
    /\ inputCones = <<>>
    /\ callerCones = <<>>
    /\ traceArgs = [maxDistance |-> 0, cols |-> 0, verticalPenaltyTimes2 |-> 0]
    /\ remainingCones = <<>>
    /\ trackEdgeCones = <<>>
    /\ previousPoint = Point(0, 0)
    /\ firstCone = NoCone
    /\ frontOfEmpty = FALSE
    /\ iter = 0
    /\ tpc = "idle"

\* track.cpp:11-23  copy, sort, take the front as the first cone
SelectStart ==
    /\ tpc = "SELECTING_START"
    /\ callerCones # <<>>
    /\ remainingCones' \in SortedFromStart(callerCones, traceArgs.cols)
    /\ firstCone' = remainingCones'[1]
    /\ previousPoint' = firstCone'.center
    /\ tpc' = "LINKING"
    /\ UNCHANGED <<inputCones, callerCones, traceArgs, trackEdgeCones, frontOfEmpty, iter>>
    /\ UNCHANGED <<clusterVars, extVars>>

\* track.cpp:16  front() of an empty vector is undefined behaviour: the call
\* faults, or it yields some value as the first cone
SelectStartOfEmpty ==
    /\ tpc = "SELECTING_START"
    /\ callerCones = <<>>
    /\ remainingCones' = <<>>
    /\ frontOfEmpty' = TRUE
    /\ \/ /\ tpc' = "CRASHED"
          /\ UNCHANGED <<firstCone, previousPoint>>
       \/ /\ firstCone' \in {NoCone} \cup {WithIds(<<c>>)[1] : c \in TraceConeSet}
          /\ previousPoint' = firstCone'.center
          /\ tpc' = "LINKING"
    /\ UNCHANGED <<inputCones, callerCones, traceArgs, trackEdgeCones, iter>>
    /\ UNCHANGED <<clusterVars, extVars>>

\* track.cpp:28-58  an iteration that links the closest cone
LinkAppend ==
    /\ tpc = "LINKING"
    /\ remainingCones # <<>>
    /\ LET it == MinElement(remainingCones, previousPoint)
       IN  /\ ~TooFar(remainingCones[it].center, previousPoint, traceArgs.maxDistance)
           /\ trackEdgeCones' = Append(trackEdgeCones, remainingCones[it])
           /\ previousPoint' = remainingCones[it].center
           /\ remainingCones' = Erase(remainingCones, it)
    /\ iter' = iter + 1
    /\ UNCHANGED <<inputCones, callerCones, traceArgs, firstCone, frontOfEmpty, tpc>>
    /\ UNCHANGED <<clusterVars, extVars>>

\* track.cpp:28-44,62  an iteration whose closest cone is too far: break, then
\* the caller's vector becomes the path
LinkCutoff ==
    /\ tpc = "LINKING"
    /\ remainingCones # <<>>
    /\ LET it == MinElement(remainingCones, previousPoint)
       IN  TooFar(remainingCones[it].center, previousPoint, traceArgs.maxDistance)
    /\ iter' = iter + 1
    /\ callerCones' = AssignBack(callerCones, trackEdgeCones)
    /\ tpc' = "TERMINATED"
    /\ UNCHANGED <<inputCones, traceArgs, remainingCones, trackEdgeCones,
                   previousPoint, firstCone, frontOfEmpty>>
    /\ UNCHANGED <<clusterVars, extVars>>

\* track.cpp:28,62  the working copy is empty: the loop ends, then the
\* caller's vector becomes the path
LinkExhausted ==
    /\ tpc = "LINKING"
    /\ remainingCones = <<>>
    /\ callerCones' = AssignBack(callerCones, trackEdgeCones)
    /\ tpc' = "TERMINATED"
    /\ UNCHANGED <<inputCones, traceArgs, remainingCones, trackEdgeCones,
                   previousPoint, firstCone, frontOfEmpty, iter>>
    /\ UNCHANGED <<clusterVars, extVars>>

\* =================================================== connectCones, called again

\* the markers of a vector without the positions the model attaches to them
Values(s) ==
    [i \in 1..Len(s) |-> [boundingBox |-> s[i].boundingBox, center |-> s[i].center]]

IdleRetrace == retraceSt = [call |-> 0, firstPath |-> <<>>]
InitRetrace == retraceSt = [call |-> 1, firstPath |-> <<>>]

\* track.cpp:4-23  connectCones is called a second time, on the vector the
\* first call left in the caller's hands (track.cpp:62), with the same frame
\* and arguments
TraceAgain ==
    /\ retraceSt.call = 1
    /\ tpc = "TERMINATED"
    /\ callerCones # <<>>
    /\ retraceSt' = [call |-> 2, firstPath |-> Values(callerCones)]
    /\ inputCones' = WithIds(callerCones)
    /\ callerCones' = inputCones'
    /\ remainingCones' = <<>>
    /\ trackEdgeCones' = <<>>
    /\ previousPoint' = Point(0, 0)
    /\ firstCone' = NoCone
    /\ frontOfEmpty' = FALSE
    /\ iter' = 0
    /\ tpc' = "SELECTING_START"
    /\ UNCHANGED traceArgs
    /\ UNCHANGED <<clusterVars, refineSt, recordSt, configSt, mainSt>>

\* =================================================== keep-closest-N

\* pipeline.cpp:250-251  comparator of the sort: larger centre y first
CloserFirstAscending(a, b) == a.center.y < b.center.y
CloserFirst(a, b) == a.center.y > b.center.y

\* pipeline.cpp:250-251  std::sort is not stable: every arrangement with no
\* pair out of order under the comparator is a possible result
SortedCloserFirst(s) ==
    Arrange(s, {q \in Perms(Len(s)) :
                  \A i, j \in 1..Len(s) : i < j => ~CloserFirst(s[q[j]], s[q[i]])})

\* pipeline.cpp:253-254  resize(keepClosestN) when the vector is longer
Truncated(s, keepClosestN) ==
    IF Len(s) > keepClosestN THEN SubSeq(s, 1, keepClosestN) ELSE s

KeepClosestNs == {-1, 0, 1, 2}

IdleRefine == refineSt = [pc |-> "idle"]

InitRefine ==
    refineSt \in [pc : {"refine"},
                  keepClosestN : KeepClosestNs,
                  detected : {WithIds(s) : s \in SeqsUpTo(TraceConeSet, MaxCones)},
                  orangeCones : {<<>>}]

\* pipeline.cpp:248  keepClosestN <= 0: the vector is left as identifyCones
\* returned it
RefineSkipped ==
    /\ refineSt.pc = "refine"
    /\ ~(refineSt.keepClosestN > 0)
    /\ refineSt' = [refineSt EXCEPT !.pc = "done", !.orangeCones = refineSt.detected]
    /\ UNCHANGED <<clusterVars, traceVars, recordSt, configSt, mainSt, retraceSt>>

\* pipeline.cpp:248-255  keepClosestN > 0: sort, then resize
RefineKeepClosest ==
    /\ refineSt.pc = "refine"
    /\ refineSt.keepClosestN > 0
    /\ \E sorted \in SortedCloserFirst(refineSt.detected) :
          refineSt' = [refineSt EXCEPT
                          !.pc = "done",
                          !.orangeCones = Truncated(sorted, refineSt.keepClosestN)]
    /\ UNCHANGED <<clusterVars, traceVars, recordSt, configSt, mainSt, retraceSt>>

\* =================================================== detection record

\* text is a sequence of one-character strings, a file a sequence of lines
Digits == <<"0", "1", "2", "3", "4", "5", "6", "7", "8", "9">>

\* operator<<(int): decimal digits, with a leading minus sign when negative
RECURSIVE NatChars(_)
NatChars(n) ==
    IF n < 10 THEN <<Digits[n + 1]>>
    ELSE NatChars(n \div 10) \o <<Digits[(n % 10) + 1]>>
IntChars(n) == IF n < 0 THEN <<"-">> \o NatChars(-n) ELSE NatChars(n)

\* pipeline.cpp:38-84  the literals of the writer
OrangeHeader == <<" ", " ", "\"", "o", "r", "a", "n", "g", "e", "C", "o", "n", "e", "s", "\"", ":", " ", "[">>
BlueHeader == <<" ", " ", "\"", "b", "l", "u", "e", "C", "o", "n", "e", "s", "\"", ":", " ", "[">>
YellowHeader == <<" ", " ", "\"", "y", "e", "l", "l", "o", "w", "C", "o", "n", "e", "s", "\"", ":", " ", "[">>
ArrayEndComma == <<" ", " ", "]", ",">>
ArrayEnd == <<" ", " ", "]">>
ConeOpen == <<" ", " ", " ", " ", "{">>
KeyX == <<"\"", "x", "\"", ":", " ">>
KeyY == <<"\"", "y", "\"", ":", " ">>
KeyBboxX == <<"\"", "b", "b", "o", "x", "_", "x", "\"", ":", " ">>
KeyBboxY == <<"\"", "b", "b", "o", "x", "_", "y", "\"", ":", " ">>
KeyBboxWidth == <<"\"", "b", "b", "o", "x", "_", "w", "i", "d", "t", "h", "\"", ":", " ">>
KeyBboxHeight == <<"\"", "b", "b", "o", "x", "_", "h", "e", "i", "g", "h", "t", "\"", ":", " ">>
Sep == <<",", " ">>

\* pipeline.cpp:43-54  the line of one cone; lastOne is i = size() - 1
ConeLine(cone, lastOne) ==
    ConeOpen
      \o KeyX \o IntChars(cone.center.x) \o Sep
      \o KeyY \o IntChars(cone.center.y) \o Sep
      \o KeyBboxX \o IntChars(cone.boundingBox.x) \o Sep
      \o KeyBboxY \o IntChars(cone.boundingBox.y) \o Sep
      \o KeyBboxWidth \o IntChars(cone.boundingBox.width) \o Sep
      \o KeyBboxHeight \o IntChars(cone.boundingBox.height)
      \o <<"}">> \o (IF lastOne THEN <<>> ELSE <<",">>)

\* pipeline.cpp:40-54  the loop over one class
ConeLines(cs) == [i \in 1..Len(cs) |-> ConeLine(cs[i], i = Len(cs))]

\* pipeline.cpp:36-95  the lines saveConeDetectionToJson writes
SavedLines(result) ==
    <<<<"{">>>> \o <<OrangeHeader>> \o ConeLines(result.orangeCones) \o <<ArrayEndComma>>
      \o <<BlueHeader>> \o ConeLines(result.blueCones) \o <<ArrayEndComma>>
      \o <<YellowHeader>> \o ConeLines(result.yellowCones) \o <<ArrayEnd>>
      \o <<<<"}">>>>

\* std::string::find: the first position (from 1) where pat occurs in line,
\* 0 for npos
Find(line, pat) ==
    LET hits == {p \in 1..(Len(line) - Len(pat) + 1) :
                    SubSeq(line, p, p + Len(pat) - 1) = pat}
    IN  IF hits = {} THEN 0 ELSE CHOOSE p \in hits : \A q \in hits : p <= q

IsDigit(c) == \E d \in 1..10 : Digits[d] = c
DigitValue(c) == (CHOOSE d \in 1..10 : Digits[d] = c) - 1

\* the value of the leading run of digits of t, continuing from acc
RECURSIVE DigitRun(_, _, _)
DigitRun(t, i, acc) ==
    IF i > Len(t) \/ ~IsDigit(t[i]) THEN acc
    ELSE DigitRun(t, i + 1, 10 * acc + DigitValue(t[i]))

\* the text t from its first character that is not a blank
RECURSIVE SkipBlanks(_)
SkipBlanks(t) == IF t # <<>> /\ t[1] = " " THEN SkipBlanks(Tail(t)) ELSE t

\* std::stoi: blanks, an optional sign, then digits up to the first other
\* character; with no digit it throws std::invalid_argument
StoiUnsigned(t) ==
    LET u == SkipBlanks(t)
        body == IF u # <<>> /\ u[1] \in {"-", "+"} THEN Tail(u) ELSE u
    IN  IF body = <<>> \/ ~IsDigit(body[1])
        THEN [ok |-> FALSE, value |-> 0]
        ELSE [ok |-> TRUE, value |-> DigitRun(body, 1, 0)]
Stoi(t) ==
    LET u == SkipBlanks(t)
        neg == u # <<>> /\ u[1] = "-"
        body == IF u # <<>> /\ u[1] \in {"-", "+"} THEN Tail(u) ELSE u
    IN  IF body = <<>> \/ ~IsDigit(body[1])
        THEN [ok |-> FALSE, value |-> 0]
        ELSE [ok |-> TRUE,
              value |-> IF neg THEN -DigitRun(body, 1, 0) ELSE DigitRun(body, 1, 0)]

\* pipeline.cpp:141-180  one field: find the key, stoi of the rest of the
\* line; a key that is not found leaves the default-constructed 0
FieldOf(line, key) ==
    LET pos == Find(line, key)
    IN  IF pos = 0 THEN [ok |-> TRUE, value |-> 0]
        ELSE Stoi(SubSeq(line, pos + Len(key), Len(line)))

\* pipeline.cpp:131-183  the cone parsed from a line; ok is FALSE when a
\* std::stoi throws
ParsedCone(line) ==
    LET x == FieldOf(line, KeyX)
        y == FieldOf(line, KeyY)
        bx == FieldOf(line, KeyBboxX)
        by == FieldOf(line, KeyBboxY)
        bw == FieldOf(line, KeyBboxWidth)
        bh == FieldOf(line, KeyBboxHeight)
    IN  [ok |-> x.ok /\ y.ok /\ bx.ok /\ by.ok /\ bw.ok /\ bh.ok,
         cone |-> [center |-> Point(x.value, y.value),
                   boundingBox |-> Rect(bx.value, by.value, bw.value, bh.value)]]

EmptyResult == [orangeCones |-> <<>>, blueCones |-> <<>>, yellowCones |-> <<>>]

\* result with the cone appended to the class that currentCones points to
PushBack(result, currentCones, cone) ==
    IF currentCones = "orangeCones"
    THEN [result EXCEPT !.orangeCones = Append(@, cone)]
    ELSE IF currentCones = "blueCones"
    THEN [result EXCEPT !.blueCones = Append(@, cone)]
    ELSE [result EXCEPT !.yellowCones = Append(@, cone)]

\* pipeline.cpp:119-130  the texts the loop looks for in a line
OrangeTag == <<"\"", "o", "r", "a", "n", "g", "e", "C", "o", "n", "e", "s", "\"">>
BlueTag == <<"\"", "b", "l", "u", "e", "C", "o", "n", "e", "s", "\"">>
YellowTag == <<"\"", "y", "e", "l", "l", "o", "w", "C", "o", "n", "e", "s", "\"">>
XTag == <<"\"", "x", "\"", ":">>

\* pipeline.cpp:116-186  the getline loop from line i on; currentCones is
\* "null" until a header line was seen
RECURSIVE LoadedFrom(_, _, _, _)
LoadedFrom(lines, i, currentCones, result) ==
    IF i > Len(lines) THEN [threw |-> FALSE, result |-> result]
    ELSE LET line == lines[i]
         IN  IF Find(line, OrangeTag) # 0
             THEN LoadedFrom(lines, i + 1, "orangeCones", result)
             ELSE IF Find(line, BlueTag) # 0
             THEN LoadedFrom(lines, i + 1, "blueCones", result)
             ELSE IF Find(line, YellowTag) # 0
             THEN LoadedFrom(lines, i + 1, "yellowCones", result)
             ELSE IF currentCones # "null" /\ Find(line, XTag) # 0
             THEN LET parsed == ParsedCone(line)
                  IN  IF ~parsed.ok THEN [threw |-> TRUE, result |-> result]
                      ELSE LoadedFrom(lines, i + 1, currentCones,
                                      PushBack(result, currentCones, parsed.cone))
             ELSE LoadedFrom(lines, i + 1, currentCones, result)

\* the field values and cones the record model draws from
RecordCone(x, y, bx, by, bw, bh) ==
    [center |-> Point(x, y), boundingBox |-> Rect(bx, by, bw, bh)]
RecordConeSet ==
    { RecordCone(12, 340, 8, 330, 9, 21),
      RecordCone(-5, 0, -17, -3, 4, 0),
      RecordCone(105, 7, 100, -2, 10, 11) }

\* results with at most MaxCones markers in all
RecordResults ==
    UNION { [orangeCones : [1..t[1] -> RecordConeSet],
             blueCones : [1..t[2] -> RecordConeSet],
             yellowCones : [1..t[3] -> RecordConeSet]] :
            t \in {u \in (0..MaxCones) \X (0..MaxCones) \X (0..MaxCones) :
                      u[1] + u[2] + u[3] <= MaxCones} }

IdleRecord == recordSt = [pc |-> "idle"]

InitRecord ==
    recordSt \in [pc : {"save"},
                  result : RecordResults,
                  opens : BOOLEAN,
                  exists : {FALSE},
                  file : {<<>>},
                  threw : {FALSE},
                  loaded : {EmptyResult}]

\* pipeline.cpp:27-99  saveConeDetectionToJson, the file could be opened
SaveConeDetectionToJson ==
    /\ recordSt.pc = "save"
    /\ recordSt.opens
    /\ recordSt' = [recordSt EXCEPT !.pc = "load", !.exists = TRUE,
                                    !.file = SavedLines(recordSt.result)]
    /\ UNCHANGED <<clusterVars, traceVars, refineSt, configSt, mainSt, retraceSt>>

\* pipeline.cpp:29-34  saveConeDetectionToJson, the file could not be opened:
\* nothing is written
SaveCannotOpen ==
    /\ recordSt.pc = "save"
    /\ ~recordSt.opens
    /\ recordSt' = [recordSt EXCEPT !.pc = "load"]
    /\ UNCHANGED <<clusterVars, traceVars, refineSt, configSt, mainSt, retraceSt>>

\* pipeline.cpp:102-195  loadConeDetectionFromJson of an existing file
LoadConeDetectionFromJson ==
    /\ recordSt.pc = "load"
    /\ recordSt.exists
    /\ LET r == LoadedFrom(recordSt.file, 1, "null", EmptyResult)
       IN  recordSt' = [recordSt EXCEPT !.pc = "done", !.threw = r.threw,
                                       !.loaded = r.result]
    /\ UNCHANGED <<clusterVars, traceVars, refineSt, configSt, mainSt, retraceSt>>

\* pipeline.cpp:107-111  loadConeDetectionFromJson, the file is not there:
\* the empty result is returned
LoadCannotOpen ==
    /\ recordSt.pc = "load"
    /\ ~recordSt.exists
    /\ recordSt' = [recordSt EXCEPT !.pc = "done", !.loaded = EmptyResult]
    /\ UNCHANGED <<clusterVars, traceVars, refineSt, configSt, mainSt, retraceSt>>

\* =================================================== configuration

\* params.hpp:13-84  the fields of PipelineParams in declaration order: path,
\* kind, compiled-in default, and another value of the field's type that the
\* model uses. Values are kept as the text of their literal.
ParamTable ==
    <<
       <<"version", "text", "1.0", "2.0">>,
       <<"description", "text", "", "test track">>,
       <<"colorDetection.erosionIterations", "int", "1", "3">>,
       <<"colorDetection.dilationIterations", "int", "2", "0">>,
       <<"colorDetection.morphKernelSize", "int", "2", "5">>,
       <<"coneDetection.minBoundingBoxArea", "int", "20", "-8">>,
       <<"coneDetection.maxBoundingBoxArea", "int", "4000", "900">>,
       <<"coneDetection.verticalMergeThreshold", "int", "20", "-3">>,
       <<"coneDetection.horizontalMergeThreshold", "int", "10", "-4">>,
       <<"coneDetection.orange.maxBoundingBoxArea", "int", "4000", "1200">>,
       <<"coneDetection.orange.verticalMergeThreshold", "int", "20", "35">>,
       <<"coneDetection.orange.horizontalMergeThreshold", "int", "10", "15">>,
       <<"coneDetection.orange.keepClosestN", "int", "-1", "2">>,
       <<"coneDetection.blue.maxBoundingBoxArea", "int", "4000", "1500">>,
       <<"coneDetection.blue.verticalMergeThreshold", "int", "20", "25">>,
       <<"coneDetection.blue.horizontalMergeThreshold", "int", "10", "7">>,
       <<"coneDetection.blue.keepClosestN", "int", "-1", "4">>,
       <<"coneDetection.yellow.maxBoundingBoxArea", "int", "4000", "1600">>,
       <<"coneDetection.yellow.verticalMergeThreshold", "int", "20", "26">>,
       <<"coneDetection.yellow.horizontalMergeThreshold", "int", "10", "8">>,
       <<"coneDetection.yellow.keepClosestN", "int", "-1", "5">>,
       <<"roadMask.hsvLower", "hsv", "0,0,0", "10,20,30">>,
       <<"roadMask.hsvUpper", "hsv", "179,70,190", "170,60,180">>,
       <<"trackDrawing.maxConeDistance", "int", "150", "-1">>,
       <<"trackDrawing.verticalPenaltyFactor", "real", "3.5", "0.5">>,
       <<"odometry.cameraIntrinsics.fx", "real", "387.3502807617188", "400.5">>,
       <<"odometry.cameraIntrinsics.fy", "real", "387.3502807617188", "401.5">>,
       <<"odometry.cameraIntrinsics.cx", "real", "317.7719116210938", "320.25">>,
       <<"odometry.cameraIntrinsics.cy", "real", "242.4875946044922", "240.75">>,
       <<"odometry.ransacConfidence", "real", "0.999", "0.5">>,
       <<"odometry.ransacThreshold", "real", "1.0", "2.5">>,
       <<"odometry.matchDistanceMultiplier", "real", "2.0", "1.5">>,
       <<"odometry.matchDistanceMinimum", "real", "30.0", "12.5">>
    >>

Fields == {ParamTable[i][1] : i \in 1..Len(ParamTable)}
RowOf(f) == ParamTable[CHOOSE i \in 1..Len(ParamTable) : ParamTable[i][1] = f]
Kinds == [f \in Fields |-> RowOf(f)[2]]
Others == [f \in Fields |-> RowOf(f)[4]]

\* params.hpp:13-84  a default-constructed PipelineParams
DefaultParams == [f \in Fields |-> RowOf(f)[3]]

KindOf(f) == Kinds[f]
DefaultOf(f) == DefaultParams[f]
OtherOf(f) == Others[f]

\* params.hpp:104-216  the keys loadFromFile looks for, in the order of its
\* statements
LoadOrder ==
    <<
       "colorDetection.erosionIterations",
       "colorDetection.dilationIterations",
       "colorDetection.morphKernelSize",
       "coneDetection.minBoundingBoxArea",
       "coneDetection.maxBoundingBoxArea",
       "coneDetection.verticalMergeThreshold",
       "coneDetection.horizontalMergeThreshold",
       "coneDetection.orange.maxBoundingBoxArea",
       "coneDetection.orange.verticalMergeThreshold",
       "coneDetection.orange.horizontalMergeThreshold",
       "coneDetection.orange.keepClosestN",
       "coneDetection.blue.verticalMergeThreshold",
       "coneDetection.yellow.verticalMergeThreshold",
       "roadMask.hsvLower",
       "roadMask.hsvUpper",
       "trackDrawing.maxConeDistance",
       "trackDrawing.verticalPenaltyFactor",
       "odometry.cameraIntrinsics.fx",
       "odometry.cameraIntrinsics.fy",
       "odometry.cameraIntrinsics.cx",
       "odometry.cameraIntrinsics.cy",
       "odometry.ransacConfidence",
       "odometry.ransacThreshold",
       "odometry.matchDistanceMultiplier",
       "odometry.matchDistanceMinimum"
    >>

\* params.hpp:232-282  the keys saveToFile writes
SavedKeys ==
    {
      "version",
      "description",
      "colorDetection.erosionIterations",
      "colorDetection.dilationIterations",
      "colorDetection.morphKernelSize",
      "coneDetection.minBoundingBoxArea",
      "coneDetection.maxBoundingBoxArea",
      "coneDetection.verticalMergeThreshold",
      "coneDetection.horizontalMergeThreshold",
      "coneDetection.orange.maxBoundingBoxArea",
      "coneDetection.orange.verticalMergeThreshold",
      "coneDetection.orange.horizontalMergeThreshold",
      "coneDetection.orange.keepClosestN",
      "coneDetection.blue.verticalMergeThreshold",
      "coneDetection.yellow.verticalMergeThreshold",
      "roadMask.hsvLower",
      "roadMask.hsvUpper",
      "trackDrawing.maxConeDistance",
      "trackDrawing.verticalPenaltyFactor",
      "odometry.cameraIntrinsics.fx",
      "odometry.cameraIntrinsics.fy",
      "odometry.cameraIntrinsics.cx",
      "odometry.cameraIntrinsics.cy",
      "odometry.ransacConfidence",
      "odometry.ransacThreshold",
      "odometry.matchDistanceMultiplier",
      "odometry.matchDistanceMinimum"
    }

\* a cv::Scalar set in memory whose first channel has a fraction
FractionalHsv == "10.5,20,30"

\* params.hpp:257-264  the (int) casts of the three channels written
IntCastHsv(v) == IF v = FractionalHsv THEN "10,20,30" ELSE v

\* a JSON value: its type and the text of its literal
JsonValue(type, text) == [json |-> type, text |-> text]

\* the JSON type that holds a field of the given kind
JsonTypeOf(kind) ==
    IF kind = "text" THEN "string" ELSE IF kind = "hsv" THEN "array3" ELSE "number"

\* the values the documents of the model hold at key f: one of the type the
\* field has (for an hsv bound an array of three integers), and one of another
\* type (a string; a number where the field is a string)
GoodValue(f) == JsonValue(JsonTypeOf(KindOf(f)), OtherOf(f))
BadValue(f) ==
    IF KindOf(f) = "text" THEN JsonValue("number", "7") ELSE JsonValue("string", "a string")

\* params.hpp:107-215  reading the value at key f. A value that is not a
\* number at a numeric key makes the conversion throw
\* nlohmann::json::type_error; an hsv bound is assigned only if the value
\* is_array() of size 3 and is skipped otherwise
Throws(f, v) == KindOf(f) \in {"int", "real"} /\ v.json # "number"
Assigns(f, v) == KindOf(f) = "hsv" => v.json = "array3"

\* params.hpp:104-216  the statements of the try block from the i-th key on:
\* a key that is present is converted and assigned at once; a throw leaves the
\* block with the assignments made so far
RECURSIVE AssignedFrom(_, _, _)
AssignedFrom(doc, i, params) ==
    IF i > Len(LoadOrder) THEN params
    ELSE LET f == LoadOrder[i]
         IN  IF f \notin DOMAIN doc THEN AssignedFrom(doc, i + 1, params)
             ELSE IF Throws(f, doc[f]) THEN params
             ELSE IF Assigns(f, doc[f])
             THEN AssignedFrom(doc, i + 1, [params EXCEPT ![f] = doc[f].text])
             ELSE AssignedFrom(doc, i + 1, params)

\* params.hpp:89  PipelineParams params; a new object whatever the caller's
\* object holds
NewParamsKeepsCurrent(current) == current
NewParams(current) == DefaultParams

\* params.hpp:87-227  loadFromFile, its result assigned to the caller's
\* object (pipeline.cpp:17). A file that cannot be opened returns at once; a
\* text that does not parse throws in file >> j before any assignment; every
\* exception is caught at params.hpp:220 and params is returned as it is
LoadFromFile(current, file) ==
    LET params == NewParams(current)
    IN  IF file.kind = "missing" THEN params
        ELSE IF file.kind = "invalid" THEN params
        ELSE AssignedFrom(file.doc, 1, params)

\* params.hpp:232-285  the document saveToFile writes
SavedDoc(params) ==
    [f \in SavedKeys |->
        JsonValue(JsonTypeOf(KindOf(f)),
                  IF KindOf(f) = "hsv" THEN IntCastHsv(params[f]) ELSE params[f])]

\* the largest number of keys of a document, and of fields of an object that
\* differ from the default
MaxKeys == 2

\* the sets of at most k fields, each built once from the increasing
\* sequences of its positions in ParamTable
RECURSIVE KeySeqs(_)
KeySeqs(k) ==
    IF k = 0 THEN {<<>>}
    ELSE LET smaller == KeySeqs(k - 1)
             longer == {Append(q, i) : q \in {r \in smaller : Len(r) = k - 1},
                                       i \in 1..Len(ParamTable)}
         IN  smaller \cup {q \in longer : k = 1 \/ q[k - 1] < q[k]}
KeysOf(q) == {ParamTable[q[j]][1] : j \in 1..Len(q)}
KeySets(k) == {KeysOf(q) : q \in KeySeqs(k)}

\* documents: every key set of at most MaxKeys keys, each key with its good or
\* its bad value
Documents ==
    {[f \in KeysOf(q) |->
        IF \E j \in 1..Len(q) : bad[j] /\ ParamTable[q[j]][1] = f
        THEN BadValue(f) ELSE GoodValue(f)] :
     q \in KeySeqs(MaxKeys), bad \in [1..MaxKeys -> BOOLEAN]}

ConfigFiles ==
    {[kind |-> "missing", doc |-> <<>>], [kind |-> "invalid", doc |-> <<>>]}
        \cup {[kind |-> "doc", doc |-> d] : d \in Documents}

\* objects: the defaults with at most MaxKeys fields set to another value
ParamObjects ==
    {[f \in Fields |-> IF f \in S THEN OtherOf(f) ELSE DefaultOf(f)] : S \in KeySets(MaxKeys)}
        \cup {[DefaultParams EXCEPT !["roadMask.hsvLower"] = FractionalHsv]}

IdleConfig == configSt = [pc |-> "idle"]

\* either a file to load into a default object (pipeline.cpp:12), or an
\* object to save where no file is yet
InitConfig ==
    \/ configSt \in [pc : {"start"}, file : ConfigFiles, params : {DefaultParams},
                     written : {FALSE}, saved : {DefaultParams},
                     previous : {DefaultParams}]
    \/ configSt \in [pc : {"start"}, file : {[kind |-> "missing", doc |-> <<>>]},
                     params : ParamObjects,
                     written : {FALSE}, saved : {DefaultParams},
                     previous : {DefaultParams}]

\* params.hpp:87-227, pipeline.cpp:15-18  loadFromFile of the file as it is
\* now: made by hand, written by saveToFile, or not there
InitializePipelineParams ==
    /\ configSt.pc \in {"start", "saved"}
    /\ configSt' = [configSt EXCEPT
                       !.pc = "loaded",
                       !.previous = configSt.params,
                       !.params = LoadFromFile(configSt.params, configSt.file)]
    /\ UNCHANGED <<clusterVars, traceVars, refineSt, recordSt, mainSt, retraceSt>>

\* params.hpp:230-286  saveToFile of the object
SaveToFile ==
    /\ configSt.pc = "start"
    /\ configSt' = [configSt EXCEPT
                       !.pc = "saved",
                       !.written = TRUE,
                       !.saved = configSt.params,
                       !.file = [kind |-> "doc", doc |-> SavedDoc(configSt.params)]]
    /\ UNCHANGED <<clusterVars, traceVars, refineSt, recordSt, mainSt, retraceSt>>

\* =================================================== main

\* the largest number of command-line tokens
MaxArgs == 2

\* main.cpp:29-35  the tokens main knows, and one it does not
Tokens == {"1", "detect", "2", "track", "3", "odometry", "all", "fast"}

\* the detection record on disk: absent, or present with some number of blue
\* and of yellow markers (0 or 1 stands for none or some)
RecordFiles ==
    {[exists |-> FALSE, blue |-> 0, yellow |-> 0]}
        \cup [exists : {TRUE}, blue : 0..1, yellow : 0..1]

IdleMain == mainSt = [pc |-> "idle"]

\* main.cpp:15-17, 56-60  the flags start true; the files are as the
\* environment has them
InitMain ==
    mainSt \in [pc : {"parse"},
                argv : SeqsUpTo(Tokens, MaxArgs),
                i : {1},
                runStep1 : {TRUE}, runStep2 : {TRUE}, runStep3 : {TRUE},
                usage : {FALSE},
                frame1 : BOOLEAN, frame2 : BOOLEAN,
                record : RecordFiles,
                executed : {<<>>},
                ranOn : {{}},
                wrote : {{}},
                status : {"running"}]

SameOthers ==
    UNCHANGED <<clusterVars, traceVars, refineSt, recordSt, configSt, retraceSt>>

\* main.cpp:19  argc > 1 is false: the three flags stay true
ParseNoArgs ==
    /\ mainSt.pc = "parse"
    /\ mainSt.argv = <<>>
    /\ mainSt' = [mainSt EXCEPT !.pc = "step1"]
    /\ SameOthers

\* main.cpp:22-40  a token main knows. The flags are cleared before the
\* first token is looked at
ParseToken ==
    /\ mainSt.pc = "parse"
    /\ mainSt.i <= Len(mainSt.argv)
    /\ LET arg == mainSt.argv[mainSt.i]
           r1 == mainSt.i > 1 /\ mainSt.runStep1
           r2 == mainSt.i > 1 /\ mainSt.runStep2
           r3 == mainSt.i > 1 /\ mainSt.runStep3
       IN  /\ arg \in {"1", "detect", "2", "track", "3", "odometry", "all"}
           /\ mainSt' = [mainSt EXCEPT
                            !.i = mainSt.i + 1,
                            !.runStep1 = r1 \/ arg \in {"1", "detect", "all"},
                            !.runStep2 = r2 \/ arg \in {"2", "track", "all"},
                            !.runStep3 = r3 \/ arg \in {"3", "odometry", "all"}]
    /\ SameOthers

\* main.cpp:41-51  any other token: print the usage text and return 0
ParseUnrecognized ==
    /\ mainSt.pc = "parse"
    /\ mainSt.i <= Len(mainSt.argv)
    /\ mainSt.argv[mainSt.i] \notin {"1", "detect", "2", "track", "3", "odometry", "all"}
    /\ mainSt' = [mainSt EXCEPT !.pc = "exit", !.usage = TRUE, !.status = "0"]
    /\ SameOthers

\* main.cpp:26  the loop over the tokens is over
ParseDone ==
    /\ mainSt.pc = "parse"
    /\ mainSt.argv # <<>>
    /\ mainSt.i > Len(mainSt.argv)
    /\ mainSt' = [mainSt EXCEPT !.pc = "step1"]
    /\ SameOthers

\* main.cpp:63  runStep1 is false
Step1Skipped ==
    /\ mainSt.pc = "step1"
    /\ ~mainSt.runStep1
    /\ mainSt' = [mainSt EXCEPT !.pc = "step2"]
    /\ SameOthers

\* main.cpp:65, pipeline.cpp:198-266  detectConesFromImage: with no image it
\* returns at once; otherwise it clusters each class and writes the record
DetectConesFromImage ==
    /\ mainSt.pc = "step1"
    /\ mainSt.runStep1
    /\ IF ~mainSt.frame1
       THEN mainSt' = [mainSt EXCEPT !.pc = "step2",
                                     !.executed = Append(@, "detect")]
       ELSE \E b, y \in 0..1 :
               mainSt' = [mainSt EXCEPT
                             !.pc = "step2",
                             !.executed = Append(@, "detect"),
                             !.ranOn = @ \cup {"identifyCones"},
                             !.record = [exists |-> TRUE, blue |-> b, yellow |-> y],
                             !.wrote = @ \cup {"detected_cones.json"}]
    /\ SameOthers

\* main.cpp:69  runStep2 is false
Step2Skipped ==
    /\ mainSt.pc = "step2"
    /\ ~mainSt.runStep2
    /\ mainSt' = [mainSt EXCEPT !.pc = "step3"]
    /\ SameOthers

\* pipeline.cpp:287  what loadConeDetectionFromJson returns: the empty result
\* when the file is not there
LoadedCounts(record) ==
    IF record.exists THEN [blue |-> record.blue, yellow |-> record.yellow]
    ELSE [blue |-> 0, yellow |-> 0]

\* main.cpp:71, pipeline.cpp:269-310  drawTrackLinesFromCones: with no image
\* it returns at once; otherwise it loads the record, whatever the outcome of
\* the load, calls connectCones on the blue and on the yellow markers and
\* writes the image. connectCones on an empty vector is undefined behaviour
\* (track.cpp:16): the process faults, or the call goes on
DrawTrackLinesFromCones ==
    /\ mainSt.pc = "step2"
    /\ mainSt.runStep2
    /\ IF ~mainSt.frame1
       THEN mainSt' = [mainSt EXCEPT !.pc = "step3",
                                     !.executed = Append(@, "track")]
       ELSE LET loaded == LoadedCounts(mainSt.record)
                mayFault == loaded.blue = 0 \/ loaded.yellow = 0
            IN  \/ mainSt' = [mainSt EXCEPT
                                 !.pc = "step3",
                                 !.executed = Append(@, "track"),
                                 !.ranOn = @ \cup {"connectCones"},
                                 !.wrote = @ \cup {"detected_cones.png"}]
                \/ /\ mayFault
                   /\ mainSt' = [mainSt EXCEPT
                                    !.pc = "fault",
                                    !.executed = Append(@, "track"),
                                    !.ranOn = @ \cup {"connectCones"},
                                    !.status = "fault"]
    /\ SameOthers

\* main.cpp:75  runStep3 is false
Step3Skipped ==
    /\ mainSt.pc = "step3"
    /\ ~mainSt.runStep3
    /\ mainSt' = [mainSt EXCEPT !.pc = "exit", !.status = "0"]
    /\ SameOthers

\* main.cpp:77-90, pipeline.cpp:313-343  calculateOdometry: with an image
\* missing it returns at once; otherwise it matches the frames and writes the
\* image; then main returns 0
CalculateOdometry ==
    /\ mainSt.pc = "step3"
    /\ mainSt.runStep3
    /\ IF ~mainSt.frame1 \/ ~mainSt.frame2
       THEN mainSt' = [mainSt EXCEPT !.pc = "exit", !.status = "0",
                                     !.executed = Append(@, "odometry")]
       ELSE mainSt' = [mainSt EXCEPT
                          !.pc = "exit", !.status = "0",
                          !.executed = Append(@, "odometry"),
                          !.ranOn = @ \cup {"calcOdometry"},
                          !.wrote = @ \cup {"odometry_matches.png"}]
    /\ SameOthers

\* =================================================== specifications

IdleExtVars == IdleRefine /\ IdleRecord /\ IdleConfig /\ IdleMain /\ IdleRetrace

InitCluster == InitClusterVars /\ IdleTraceVars /\ IdleExtVars
NextCluster == ExtractParts \/ MergePart \/ ReturnCones
SpecCluster == InitCluster /\ [][NextCluster]_vars

InitTrace == IdleClusterVars /\ InitTraceVars /\ IdleExtVars
NextTrace == SelectStart \/ SelectStartOfEmpty \/ LinkAppend \/ LinkCutoff \/ LinkExhausted
SpecTrace == InitTrace /\ [][NextTrace]_vars
\* the call is single-threaded and runs to completion: a step that can be
\* taken is taken
FairSpecTrace == SpecTrace /\ WF_vars(NextTrace)

\* the keep-closest-N step on its own
InitRefineSpec ==
    IdleClusterVars /\ IdleTraceVars /\ InitRefine /\ IdleRecord /\ IdleConfig /\ IdleMain
        /\ IdleRetrace
NextRefine == RefineSkipped \/ RefineKeepClosest
SpecRefine == InitRefineSpec /\ [][NextRefine]_vars

\* the detection record written and read back
InitRecordSpec ==
    IdleClusterVars /\ IdleTraceVars /\ IdleRefine /\ InitRecord /\ IdleConfig /\ IdleMain
        /\ IdleRetrace
NextRecord ==
    SaveConeDetectionToJson \/ SaveCannotOpen \/ LoadConeDetectionFromJson \/ LoadCannotOpen
SpecRecord == InitRecordSpec /\ [][NextRecord]_vars

\* the configuration loaded and saved
InitConfigSpec ==
    IdleClusterVars /\ IdleTraceVars /\ IdleRefine /\ IdleRecord /\ InitConfig /\ IdleMain
        /\ IdleRetrace
NextConfig == InitializePipelineParams \/ SaveToFile
SpecConfig == InitConfigSpec /\ [][NextConfig]_vars

\* the command line and the three phases
InitMainSpec ==
    IdleClusterVars /\ IdleTraceVars /\ IdleRefine /\ IdleRecord /\ IdleConfig /\ InitMain
        /\ IdleRetrace
NextMain ==
    \/ ParseNoArgs \/ ParseToken \/ ParseUnrecognized \/ ParseDone
    \/ Step1Skipped \/ DetectConesFromImage
    \/ Step2Skipped \/ DrawTrackLinesFromCones
    \/ Step3Skipped \/ CalculateOdometry
SpecMain == InitMainSpec /\ [][NextMain]_vars

\* connectCones, then connectCones again on its result
InitRetraceSpec ==
    IdleClusterVars /\ InitTraceVars /\ IdleRefine /\ IdleRecord /\ IdleConfig /\ IdleMain
        /\ InitRetrace
NextRetrace == NextTrace \/ TraceAgain
SpecRetrace == InitRetraceSpec /\ [][NextRetrace]_vars

Init ==
    InitCluster \/ InitTrace \/ InitRefineSpec \/ InitRecordSpec \/ InitConfigSpec
        \/ InitMainSpec \/ InitRetraceSpec
Next ==
    NextCluster \/ NextTrace \/ NextRefine \/ NextRecord \/ NextConfig \/ NextMain
        \/ TraceAgain
Spec == Init /\ [][Next]_vars

\* =================================================== properties: identifyCones

\* the part the current merge step works on, and the accepted cones that
\* satisfy the proximity test of the claim for it
CurPart == detectedParts[partIdx]
Matching ==
    {i \in 1..Len(cones) :
        /\ Abs(CurPart.center.x - cones[i].center.x) < args.hThreshold
        /\ Abs(CurPart.center.y - cones[i].center.y) < args.vThreshold}

\* C1: a merge step changes exactly one marker, the first one in insertion
\* order that lies within the thresholds of the blob, and leaves every other
\* marker as it was; with no such marker the blob is appended as a new marker.
C1_FirstMatchOnly ==
    [][(cpc = "merge" /\ partIdx' = partIdx + 1) =>
        IF Matching = {}
        THEN cones' = Append(cones, AsCone(CurPart))
        ELSE LET f == CHOOSE i \in Matching : \A j \in Matching : i <= j
             IN  /\ Len(cones') = Len(cones)
                 /\ cones'[f] = MergeInto(cones[f], CurPart)
                 /\ \A i \in 1..Len(cones) : i # f => cones'[i] = cones[i]]_vars

\* contour i has a bounding-box area outside [minArea, maxArea]
OutsideArea(i) ==
    \/ RectArea(contours[i].boundingBox) < args.minArea
    \/ RectArea(contours[i].boundingBox) > args.maxArea

\* C2: a contour whose bounding-box area is below minArea or above maxArea
\* never becomes a part and is never merged into an output marker.
C2_AreaFilter ==
    \A i \in 1..Len(contours) : OutsideArea(i) =>
        /\ \A k \in 1..Len(detectedParts) : detectedParts[k].src # i
        /\ \A k \in 1..Len(coneParts) : i \notin coneParts[k]

\* every contour is a blob that the filter of identifyCones lets through
AllBlobsKept ==
    \A i \in 1..Len(contours) :
        /\ contours[i].m00nz
        /\ RectArea(contours[i].boundingBox) >= HardMinArea
        /\ RectArea(contours[i].boundingBox) <= args.maxArea

\* every two blobs are farther apart than the thresholds on both axes
PairwiseFar ==
    \A i, j \in 1..Len(contours) : i # j =>
        /\ Abs(contours[i].center.x - contours[j].center.x) > args.hThreshold
        /\ Abs(contours[i].center.y - contours[j].center.y) > args.vThreshold

\* C9: when all blobs pass the filter and are pairwise farther apart than the
\* thresholds on both axes, nothing is merged: as many markers as blobs, and
\* each marker carries the bounding box and centroid of one blob.
C9_DisjointNoMerge ==
    (cpc = "done" /\ AllBlobsKept /\ PairwiseFar) =>
        /\ Len(cones) = Len(contours)
        /\ \A k \in 1..Len(cones) : \E i \in 1..Len(contours) :
               /\ cones[k].boundingBox = contours[i].boundingBox
               /\ cones[k].center = contours[i].center
        /\ \A i \in 1..Len(contours) : \E k \in 1..Len(cones) :
               /\ cones[k].boundingBox = contours[i].boundingBox
               /\ cones[k].center = contours[i].center
C9_Witness ==
    /\ cpc = "done" /\ AllBlobsKept /\ PairwiseFar
    /\ Len(contours) >= 2
    /\ Len(cones) = Len(contours)

\* the three blobs of the collapse example, in any input order
CollapseInput ==
    /\ Len(contours) = 3
    /\ AllBlobsKept
    /\ {contours[i].center : i \in 1..3} = {P1, P2, P3}
    /\ args.hThreshold = 5 /\ args.vThreshold = 5

\* the smallest axis-aligned rectangle that encloses every input box
Enclosing ==
    LET idx == 1..Len(contours)
        bb(i) == contours[i].boundingBox
        x1 == CHOOSE v \in {bb(i).x : i \in idx} : \A i \in idx : v <= bb(i).x
        y1 == CHOOSE v \in {bb(i).y : i \in idx} : \A i \in idx : v <= bb(i).y
        x2 == CHOOSE v \in {bb(i).x + bb(i).width : i \in idx} :
                  \A i \in idx : v >= bb(i).x + bb(i).width
        y2 == CHOOSE v \in {bb(i).y + bb(i).height : i \in idx} :
                  \A i \in idx : v >= bb(i).y + bb(i).height
    IN  Rect(x1, y1, x2 - x1, y2 - y1)

\* C10: blobs at (10,10), (12,11), (11,13) with both thresholds 5 collapse
\* into one marker whose bounding box encloses exactly the three input boxes,
\* whatever the boxes are.
C10_Collapse ==
    (cpc = "done" /\ CollapseInput) =>
        /\ Len(cones) = 1
        /\ cones[1].boundingBox = Enclosing
C10_Witness ==
    /\ cpc = "done" /\ CollapseInput
    /\ Len(cones) = 1
    /\ contours[1].boundingBox.width # contours[2].boundingBox.width
    /\ cones[1].boundingBox # contours[1].boundingBox

\* =================================================== properties: connectCones

\* the markers of the call, as a set
InputSet == {inputCones[i] : i \in 1..Len(inputCones)}

\* a start marker: largest centroid y, and among those the smallest
\* horizontal distance to the middle column
IsStartMarker(c) ==
    /\ c \in InputSet
    /\ \A d \in InputSet :
        /\ c.center.y >= d.center.y
        /\ d.center.y = c.center.y =>
             Abs(c.center.x - traceArgs.cols \div 2) <= Abs(d.center.x - traceArgs.cols \div 2)

\* C3: for a non-empty collection the returned path begins with the start
\* marker, whatever maxDistance is.
C3_StartFirst ==
    (tpc = "TERMINATED" /\ inputCones # <<>>) =>
        /\ callerCones # <<>>
        /\ IsStartMarker(callerCones[1])

\* C4: on an empty collection the call returns an empty path, leaves the
\* collection empty and reads no element of it.
C4_EmptyInput ==
    (inputCones = <<>> /\ tpc # "SELECTING_START") =>
        /\ ~frontOfEmpty
        /\ tpc # "CRASHED"
        /\ tpc = "TERMINATED" => (callerCones = <<>> /\ trackEdgeCones = <<>>)

\* 2 * cost(c, prev) <= 2 * m, in integers: sqrt(4 d^2) <= 2m - 7 |dy|
WithinDistance(c, prev, m) ==
    LET room == 2 * m - 7 * Abs(c.y - prev.y)
    IN  /\ room >= 0
        /\ 4 * ((c.x - prev.x) * (c.x - prev.x) + (c.y - prev.y) * (c.y - prev.y))
               <= room * room

\* the two-marker example: post-penalty cost 500 (same row, 500 columns
\* apart), maxDistance 150
TwoFarMarkers ==
    /\ Len(inputCones) = 2
    /\ inputCones[1].center.y = inputCones[2].center.y
    /\ Abs(inputCones[1].center.x - inputCones[2].center.x) = 500
    /\ traceArgs.maxDistance = 150

\* C5: every link of the path costs at most maxDistance; when the loop has
\* stopped, every marker left in the working set costs more than maxDistance
\* from the last point and is not in the result; two markers at cost 500 with
\* maxDistance 150 give a path of the start marker alone.
C5_Cutoff ==
    /\ \A k \in 1..(Len(trackEdgeCones) - 1) :
           WithinDistance(trackEdgeCones[k + 1].center, trackEdgeCones[k].center,
                          traceArgs.maxDistance)
    /\ tpc = "TERMINATED" =>
        /\ \A r \in 1..Len(remainingCones) :
              /\ ~WithinDistance(remainingCones[r].center, previousPoint,
                                 traceArgs.maxDistance)
              /\ \A k \in 1..Len(callerCones) : callerCones[k].id # remainingCones[r].id
        /\ TwoFarMarkers =>
              /\ Len(callerCones) = 1
              /\ IsStartMarker(callerCones[1])
C5_Witness ==
    /\ tpc = "TERMINATED"
    /\ Len(inputCones) = 3
    /\ Len(callerCones) = 2
    /\ Len(remainingCones) = 1
C5_WitnessTwoFar ==
    tpc = "TERMINATED" /\ TwoFarMarkers /\ Len(callerCones) = 1

\* C6: every call comes to TERMINATED, within as many loop iterations as
\* there are input markers, and the path is never longer than the input.
C6_Terminates ==
    /\ <>(tpc = "TERMINATED")
    /\ [](/\ iter <= Len(inputCones)
          /\ Len(trackEdgeCones) <= Len(inputCones)
          /\ Len(remainingCones) + Len(trackEdgeCones) <= Len(inputCones))

\* C7: no input marker (identified by its input position) is in the path
\* more than once.
C7_NoRepeat ==
    /\ \A i, j \in 1..Len(trackEdgeCones) :
           i # j => trackEdgeCones[i].id # trackEdgeCones[j].id
    /\ tpc = "TERMINATED" =>
           \A i, j \in 1..Len(callerCones) : i # j => callerCones[i].id # callerCones[j].id
C7_Witness ==
    /\ tpc = "TERMINATED"
    /\ Len(callerCones) = 3
    /\ callerCones[1].center = callerCones[2].center

\* C8: after the return the caller's collection is exactly the path: input
\* markers, unchanged, in link order, and no marker that was never linked.
C8_CallerGetsPath ==
    tpc = "TERMINATED" =>
        /\ callerCones = trackEdgeCones
        /\ \A k \in 1..Len(callerCones) :
              /\ callerCones[k].id \in 1..Len(inputCones)
              /\ callerCones[k] = inputCones[callerCones[k].id]
        /\ \A r \in 1..Len(remainingCones) :
              \A k \in 1..Len(callerCones) : callerCones[k].id # remainingCones[r].id
        /\ Len(callerCones) + Len(remainingCones) = Len(inputCones)
C8_Witness ==
    /\ tpc = "TERMINATED"
    /\ Len(inputCones) = 3
    /\ Len(callerCones) = 1
    /\ callerCones[1].id # 1

\* =================================================== properties: merge centre

\* n is the integer mean of a and b, rounded toward zero (operands are >= 0)
IsHalfSum(n, a, b) == 2 * n <= a + b /\ a + b < 2 * n + 2

\* the centres of the contours that went into cone k, summed per coordinate
RECURSIVE SumCentres(_, _)
SumCentres(S, coord) ==
    IF S = {} THEN 0
    ELSE LET i == CHOOSE j \in S : TRUE
         IN  (IF coord = "x" THEN contours[i].center.x ELSE contours[i].center.y)
                 + SumCentres(S \ {i}, coord)

\* C19: on every merge the centre of the marker becomes the componentwise
\* integer mean of its current, already averaged centre and the centre of the
\* blob, and the markers a blob is tested against are taken with their current
\* centres: exactly the markers within the thresholds of their current centre
\* change in the step.
C19_PairwiseMean ==
    [][(cpc = "merge" /\ partIdx' = partIdx + 1 /\ Matching # {}) =>
        /\ Len(cones') = Len(cones)
        /\ \A i \in 1..Len(cones) :
              IF i \in Matching
              THEN /\ IsHalfSum(cones'[i].center.x, cones[i].center.x, CurPart.center.x)
                   /\ IsHalfSum(cones'[i].center.y, cones[i].center.y, CurPart.center.y)
              ELSE cones'[i] = cones[i]]_vars

\* a finished run in which a marker absorbed three blobs and its centre is
\* not the integer mean of the three blob centres
C19_Witness ==
    /\ cpc = "done"
    /\ \E k \in 1..Len(cones) :
          /\ Cardinality(coneParts[k]) = 3
          /\ \/ cones[k].center.x # SumCentres(coneParts[k], "x") \div 3
             \/ cones[k].center.y # SumCentres(coneParts[k], "y") \div 3

\* =================================================== properties: link cost

\* cost(ca) < cost(cb) from previousPoint, with the cost of the claim:
\* Euclidean distance plus |dy| times the verticalPenaltyFactor of the call
PassedCostLess(ca, cb) ==
    SqrtPlusLess(CostSq(ca, previousPoint),
                 traceArgs.verticalPenaltyTimes2 * Abs(ca.y - previousPoint.y),
                 CostSq(cb, previousPoint),
                 traceArgs.verticalPenaltyTimes2 * Abs(cb.y - previousPoint.y))

\* C20: at every linking step the appended marker has the least cost of the
\* working set, the cost being computed with the verticalPenaltyFactor that
\* the caller passed, and previousPoint becomes the centre of that marker.
C20_MinimisesPassedCost ==
    [][(tpc = "LINKING" /\ Len(trackEdgeCones') = Len(trackEdgeCones) + 1) =>
        LET c == trackEdgeCones'[Len(trackEdgeCones')]
        IN  /\ \A i \in 1..Len(remainingCones) :
                  ~PassedCostLess(remainingCones[i].center, c.center)
            /\ previousPoint' = c.center]_vars

\* =================================================== properties: keep-closest-N

\* the positions in the detected sequence of the markers that were kept
KeptIds == {refineSt.orangeCones[k].id : k \in 1..Len(refineSt.orangeCones)}

\* C16: with keepClosestN <= 0 the orange markers are returned unchanged and
\* in the same order; otherwise the result is ordered by centre y descending,
\* has min(keepClosestN, length) markers, each a distinct marker of the input,
\* and no dropped marker has a larger y than a kept one.
C16_KeepClosest ==
    refineSt.pc = "done" =>
        LET in == refineSt.detected
            out == refineSt.orangeCones
            n == refineSt.keepClosestN
        IN  IF n <= 0
            THEN out = in
            ELSE /\ Len(out) = (IF n < Len(in) THEN n ELSE Len(in))
                 /\ \A k \in 1..Len(out) :
                       out[k].id \in 1..Len(in) /\ out[k] = in[out[k].id]
                 /\ \A j, k \in 1..Len(out) : j < k =>
                       out[j].id # out[k].id /\ out[j].center.y >= out[k].center.y
                 /\ \A d \in (1..Len(in)) \ KeptIds : \A k \in 1..Len(out) :
                       in[d].center.y <= out[k].center.y

\* a run that dropped a marker, kept two with different y, and had to reorder
C16_Witness ==
    /\ refineSt.pc = "done"
    /\ refineSt.keepClosestN = 2
    /\ Len(refineSt.detected) = 3
    /\ Len(refineSt.orangeCones) = 2
    /\ refineSt.orangeCones[1].center.y > refineSt.orangeCones[2].center.y
    /\ refineSt.orangeCones[1].id > refineSt.orangeCones[2].id

\* =================================================== properties: detection record

\* C15: a detection result that was saved and read back has, for each of the
\* three classes, the same number of markers with the same centre and
\* bounding-box values in the same order, whatever the number of markers and
\* the sign of the values.
C15_RoundTrip ==
    (recordSt.pc = "done" /\ recordSt.exists) =>
        /\ ~recordSt.threw
        /\ Len(recordSt.loaded.orangeCones) = Len(recordSt.result.orangeCones)
        /\ Len(recordSt.loaded.blueCones) = Len(recordSt.result.blueCones)
        /\ Len(recordSt.loaded.yellowCones) = Len(recordSt.result.yellowCones)
        /\ \A i \in 1..Len(recordSt.result.orangeCones) :
              recordSt.loaded.orangeCones[i] = recordSt.result.orangeCones[i]
        /\ \A i \in 1..Len(recordSt.result.blueCones) :
              recordSt.loaded.blueCones[i] = recordSt.result.blueCones[i]
        /\ \A i \in 1..Len(recordSt.result.yellowCones) :
              recordSt.loaded.yellowCones[i] = recordSt.result.yellowCones[i]

\* a record read back with an empty class and a class of two different
\* markers, one of them with negative values
C15_Witness ==
    /\ recordSt.pc = "done" /\ recordSt.exists
    /\ recordSt.result.orangeCones = <<>>
    /\ Len(recordSt.loaded.blueCones) = 2
    /\ recordSt.loaded.blueCones[1].center.x < 0
    /\ recordSt.loaded.blueCones[2].center.x > 0
    /\ Len(recordSt.loaded.yellowCones) = 1

\* =================================================== properties: configuration

\* C11: loading from a path that cannot be opened gives an object whose every
\* field has its compiled-in default, whatever the caller's object held; no
\* exception leaves loadFromFile (the model has no such outcome: the open
\* test and every later statement are inside the try block).
C11_MissingFileDefaults ==
    (configSt.pc = "loaded" /\ configSt.file.kind = "missing") =>
        \A f \in Fields : configSt.params[f] = DefaultOf(f)

\* a load from a missing path into an object that held other values
C11_Witness ==
    /\ configSt.pc = "loaded" /\ configSt.file.kind = "missing"
    /\ configSt.previous # DefaultParams
    /\ configSt.params["version"] = "1.0"
    /\ configSt.params["trackDrawing.maxConeDistance"] = "150"

\* the file is malformed: its text does not parse, or some key holds a value
\* of another type than its field
Malformed(file) ==
    \/ file.kind = "invalid"
    \/ /\ file.kind = "doc"
       /\ \E f \in DOMAIN file.doc : file.doc[f].json # JsonTypeOf(KindOf(f))

\* C12: loading a malformed file gives an object whose every field has its
\* default: no field keeps a value read from the file before the fault.
C12_MalformedAllDefaults ==
    (configSt.pc = "loaded" /\ Malformed(configSt.file)) =>
        \A f \in Fields : configSt.params[f] = DefaultOf(f)

\* C13: after loading a well-formed file, each field whose key is present has
\* the value of the file and each field whose key is absent has its default.
C13_PresentKeysTaken ==
    (configSt.pc = "loaded" /\ configSt.file.kind = "doc" /\ ~Malformed(configSt.file)) =>
        \A f \in Fields :
            configSt.params[f] =
                IF f \in DOMAIN configSt.file.doc
                THEN configSt.file.doc[f].text ELSE DefaultOf(f)

\* C14: an object that was saved and loaded back is equal to the saved object
\* in every field.
C14_SaveLoadRoundTrip ==
    (configSt.pc = "loaded" /\ configSt.written) =>
        \A f \in Fields : configSt.params[f] = configSt.saved[f]

\* =================================================== properties: main

\* the run is over
Stopped == mainSt.pc \in {"exit", "fault"}

\* the phases the flags select, in the order main runs them
SelectedByFlags ==
    (IF mainSt.runStep1 THEN <<"detect">> ELSE <<>>)
        \o (IF mainSt.runStep2 THEN <<"track">> ELSE <<>>)
        \o (IF mainSt.runStep3 THEN <<"odometry">> ELSE <<>>)

\* phase ph was called in this run
Called(ph) == \E k \in 1..Len(mainSt.executed) : mainSt.executed[k] = ph

\* C17: a phase whose image or detection record is absent returns without
\* running clustering or boundary tracing and without writing its output
\* file, and the other selected phases still run.
C17_MissingInputAborts ==
    (Stopped /\ ~mainSt.usage) =>
        /\ (Called("detect") /\ ~mainSt.frame1) =>
              /\ "identifyCones" \notin mainSt.ranOn
              /\ "detected_cones.json" \notin mainSt.wrote
        /\ (Called("track") /\ (~mainSt.frame1 \/ ~mainSt.record.exists)) =>
              /\ "connectCones" \notin mainSt.ranOn
              /\ "detected_cones.png" \notin mainSt.wrote
        /\ (Called("odometry") /\ (~mainSt.frame1 \/ ~mainSt.frame2)) =>
              /\ "calcOdometry" \notin mainSt.ranOn
              /\ "odometry_matches.png" \notin mainSt.wrote
        /\ mainSt.executed = SelectedByFlags

\* the phases a token names
PhasesOf(arg) ==
    IF arg \in {"1", "detect"} THEN {"detect"}
    ELSE IF arg \in {"2", "track"} THEN {"track"}
    ELSE IF arg \in {"3", "odometry"} THEN {"odometry"}
    ELSE IF arg = "all" THEN {"detect", "track", "odometry"}
    ELSE {}

\* the phases the command line names: all three with no token
Named ==
    IF mainSt.argv = <<>> THEN {"detect", "track", "odometry"}
    ELSE UNION {PhasesOf(mainSt.argv[k]) : k \in 1..Len(mainSt.argv)}
Unrecognized == \E k \in 1..Len(mainSt.argv) : PhasesOf(mainSt.argv[k]) = {}

\* C18: when main stops, with a token it does not know anywhere on the
\* command line it has printed the usage text, called no phase and returned 0;
\* otherwise it has called exactly the phases the tokens name (all three with
\* no token), once each, in the order detect, track, odometry.
C18_PhasesByTokens ==
    Stopped =>
        IF Unrecognized
        THEN mainSt.usage /\ mainSt.executed = <<>> /\ mainSt.status = "0"
        ELSE /\ ~mainSt.usage
             /\ mainSt.executed =
                    (IF "detect" \in Named THEN <<"detect">> ELSE <<>>)
                        \o (IF "track" \in Named THEN <<"track">> ELSE <<>>)
                        \o (IF "odometry" \in Named THEN <<"odometry">> ELSE <<>>)

\* =================================================== properties: trace again

\* C21: when connectCones has returned a non-empty path and is called again
\* on that path with the same frame and arguments, the second call returns
\* the same markers in the same order.
C21_TraceIdempotent ==
    (retraceSt.call = 2 /\ tpc = "TERMINATED") =>
        Values(callerCones) = retraceSt.firstPath

====
